---- MODULE Spec2Model ----
(***************************************************************************)
(* A model of exla/c_src/exla/exla_client.cc: the device-buffer and        *)
(* execution-dispatch layer between the host caller and the PjRt runtime.  *)
(*                                                                         *)
(* State: the ExlaBuffer objects ever created (bufs), the layout the       *)
(* backend gives to on-device allocations (devLayout), and the outcome of  *)
(* one handler call (last): what it was called with, the buffers before    *)
(* it, its status, its value and the sequence of calls it made on the      *)
(* runtime and on the resource tracker.  Any number of calls may precede   *)
(* the recorded one; the recorded call is the last step of a behaviour, so *)
(* last describes a call made in any state the program can reach.          *)
(*                                                                         *)
(* Every handler is one action.  A handler is computed by operators that   *)
(* thread a context [bufs, ev, n, fail] through the statements of the      *)
(* code in program order; a statement wrapped in EXLA_*_OR_RETURN ends the *)
(* handler at the first error.  The runtime's own failures are an input    *)
(* of the action: fail = k makes the k-th call whose outcome the runtime   *)
(* decides fail (0: none does).                                            *)
(***************************************************************************)
EXTENDS Integers, Sequences, FiniteSets, TLC

VARIABLES bufs, devLayout, host, last

vars == <<bufs, devLayout, host, last>>

----------------------------------------------------------------------------
(* Bounds of the model *)

\* ExlaBuffer objects created by the calls before the recorded one
MaxPrior == 1
\* most resource terms made for one buffer before the recorded call
MaxHandles == 2
\* longest argument list handed to Run
MaxArgs == 2
\* most result buffers one execution produces
MaxOut == 2
\* most elements of an array shape
MaxElems == 4
\* longest chunk list handed to TransferToInfeed, most elements of a tuple
MaxChunks == 2

\* room for the buffers made before the recorded call and by it
BufIds == 1..(MaxPrior + MaxArgs + MaxOut)
NoBuf == 0
\* the client has one device, with id 0
LiveDevices == {0}
\* device ids a caller may pass: negative, live, and one that is not live
DeviceIds == {-1, 0, 1}

----------------------------------------------------------------------------
(* Shapes, layouts and literals (rank 2; a layout is minor_to_major)       *)

RowMajor == <<1, 0>>
ColMajor == <<0, 1>>
Layouts == {RowMajor, ColMajor}
ElementTypes == {"u8", "u16"}

ByteWidth(ty) == IF ty = "u8" THEN 1 ELSE 2

Shapes == [ty : ElementTypes, dims : {d \in (1..MaxElems) \X (1..MaxElems) : d[1] * d[2] <= MaxElems}, m2m : Layouts]

NumElements(shape) == shape.dims[1] * shape.dims[2]

\* xla::ShapeUtil::ByteSizeOf / Literal::size_bytes for a dense array
SizeBytes(shape) == NumElements(shape) * ByteWidth(shape.ty)

\* linear (0-based) position of element (i, j) under the shape's layout
LinearIndex(shape, i, j) ==
    IF shape.m2m = RowMajor
    THEN i * shape.dims[2] + j
    ELSE j * shape.dims[1] + i

Indices(shape) == (0..(shape.dims[1] - 1)) \X (0..(shape.dims[2] - 1))

\* xla::ShapeUtil::MakeShape(element_type, dimensions): the default
\* (descending, row-major) layout
MakeShape(ty, dims) == [ty |-> ty, dims |-> dims, m2m |-> RowMajor]

\* xla::LayoutUtil::LayoutsInShapesEqual
LayoutsInShapesEqual(s1, s2) == s1.m2m = s2.m2m

\* Literal::Relayout: the same logical array, stored under the new layout
Relayout(lit, m2m) ==
    LET old == lit.shape
        new == [old EXCEPT !.m2m = m2m]
        w   == ByteWidth(old.ty)
        src(p) == LET e  == (p - 1) \div w
                      k  == (p - 1) % w
                      ij == CHOOSE x \in Indices(new) : LinearIndex(new, x[1], x[2]) = e
                  IN  LinearIndex(old, ij[1], ij[2]) * w + k + 1
    IN  [shape |-> new, data |-> [p \in 1..Len(lit.data) |-> lit.data[src(p)]]]

\* a shape whose bytes read the same in its own layout and in row-major order
RowMajorCompatible(shape) ==
    \A x \in Indices(shape) :
        LinearIndex(shape, x[1], x[2]) = LinearIndex(MakeShape(shape.ty, shape.dims), x[1], x[2])

RECURSIVE SeqsOfLen(_, _)
SeqsOfLen(S, n) ==
    IF n = 0 THEN {<<>>}
    ELSE {Append(s, x) : s \in SeqsOfLen(S, n - 1), x \in S}

----------------------------------------------------------------------------
(* ExlaBuffer objects                                                      *)
(*   st      "none"    not created yet                                     *)
(*           "live"    the PjRtBuffer holds device memory                  *)
(*           "deleted" PjRtBuffer::Delete() ran: memory released, the      *)
(*                     object is still there                               *)
(*           "freed"   the owning object was destroyed (memory released)   *)
(*   own     "result"  a unique_ptr in an execution's result vector        *)
(*           "exla"    an ExlaBuffer object made with new                  *)
(*   rel     can_be_released_after_run_                                    *)
(*   handles resource terms made for the object (the tracker's handles)    *)
(*   held    a resource term of the object was returned to the caller      *)
(*   xfer    the asynchronous operation that produces the buffer:          *)
(*           "pending", "done" or "failed" ("none" once the memory is      *)
(*           released)                                                     *)
(*   lit     the value on the device, in the on-device layout              *)

NoShape == [ty |-> "none", dims |-> <<0, 0>>, m2m |-> RowMajor]
NoLit == [shape |-> NoShape, data |-> <<>>]
NoBuffer == [st |-> "none", own |-> "none", rel |-> FALSE, handles |-> 0, held |-> FALSE,
             xfer |-> "none", lit |-> NoLit]

FreeIds(b) == {i \in BufIds : b[i].st = "none"}
NewId(b) == CHOOSE i \in FreeIds(b) : \A j \in FreeIds(b) : i <= j

\* the context a handler threads through its statements
\* (used: the execution succeeded and its number of results was read;
\* checked: the library checks the index of operator[], see UnpackResult)
Ctx(b, fail) ==
    [bufs |-> b, ev |-> <<>>, n |-> 0, fail |-> fail, over |-> FALSE, used |-> FALSE,
     checked |-> FALSE]

Ok(c, val) == [c |-> c, ok |-> TRUE, err |-> "OK", msg |-> "", val |-> val]
Err(c, err, msg) == [c |-> c, ok |-> FALSE, err |-> err, msg |-> msg, val |-> NoBuf]

\* one call on the runtime or on the tracker, appended to the handler's log:
\* the call, the device or buffer it is made on, the buffers or chunks it is
\* given, whether it succeeded and the buffers it returned
Log(c, e, id, ids, ok, res) ==
    [c EXCEPT !.ev = Append(@, [ev |-> e, id |-> id, bufs |-> ids, ok |-> ok, res |-> res])]

\* EXLA_ASSIGN_OR_RETURN / EXLA_EFFECT_OR_RETURN: the function returns the
\* status r when it is an error, and goes on as K with the value otherwise
OrReturn(r, K(_)) == IF r.ok THEN K(r) ELSE r

\* a call whose outcome the runtime decides: it is the next one counted
Decide(c) == [c EXCEPT !.n = @ + 1]
Faulty(c) == c.n = c.fail

----------------------------------------------------------------------------
(* The runtime (xla::PjRtClient, xla::PjRtBuffer) as the code calls it     *)

\* PjRtClient::LookupDevice: an error unless the id names a device
LookupDevice(c, device_id) ==
    IF device_id \in LiveDevices
    THEN Ok(Log(c, "LookupDevice", device_id, <<>>, TRUE, <<>>), device_id)
    ELSE Err(Log(c, "LookupDevice", device_id, <<>>, FALSE, <<>>),
             "LookupDevice", "no matching device")

\* PjRtClient::BufferFromHostBuffer: starts the transfer of the host bytes,
\* read in the layout of shape, to a new allocation in the device's layout
BufferFromHostBuffer(c, data, shape, device) ==
    LET c1 == Decide(c)
    IN  IF Faulty(c1)
        THEN Err(Log(c1, "BufferFromHostBuffer", device, <<>>, FALSE, <<>>),
                 "BufferFromHostBuffer", "transfer failed")
        ELSE IF FreeIds(c1.bufs) = {}
        THEN Err([c1 EXCEPT !.over = TRUE], "Overflow", "")
        ELSE LET id == NewId(c1.bufs)
                 nb == [st |-> "live", own |-> "result", rel |-> FALSE, handles |-> 0, held |-> FALSE,
                        xfer |-> "pending",
                        lit |-> Relayout([shape |-> shape, data |-> data], devLayout)]
             IN  Ok(Log([c1 EXCEPT !.bufs[id] = nb],
                        "BufferFromHostBuffer", device, <<>>, TRUE, <<id>>), id)

\* PjRtBuffer::BlockHostUntilReady: an error on a deleted buffer; otherwise
\* it waits for the producing operation, whose outcome is then settled
PjRtBlockHostUntilReady(c, b) ==
    IF c.bufs[b].st # "live"
    THEN Err(Log(c, "BlockHostUntilReady", b, <<>>, FALSE, <<>>),
             "BlockHostUntilReady", "deleted buffer")
    ELSE IF c.bufs[b].xfer = "done"
    THEN Ok(Log(c, "BlockHostUntilReady", b, <<>>, TRUE, <<>>), b)
    ELSE IF c.bufs[b].xfer = "failed"
    THEN Err(Log(c, "BlockHostUntilReady", b, <<>>, FALSE, <<>>),
             "BlockHostUntilReady", "operation failed")
    ELSE LET c1 == Decide(c)
         IN  IF Faulty(c1)
             THEN Err(Log([c1 EXCEPT !.bufs[b].xfer = "failed"],
                          "BlockHostUntilReady", b, <<>>, FALSE, <<>>),
                      "BlockHostUntilReady", "operation failed")
             ELSE Ok(Log([c1 EXCEPT !.bufs[b].xfer = "done"],
                         "BlockHostUntilReady", b, <<>>, TRUE, <<>>), b)

\* PjRtBuffer::ToLiteral: the value in the on-device layout, or an error
ToLiteral(c, b) ==
    IF c.bufs[b].st # "live"
    THEN Err(Log(c, "ToLiteral", b, <<>>, FALSE, <<>>), "ToLiteral", "deleted buffer")
    ELSE LET c1 == Decide(c)
         IN  IF Faulty(c1)
             THEN Err(Log(c1, "ToLiteral", b, <<>>, FALSE, <<>>), "ToLiteral", "readback failed")
             ELSE Ok(Log(c1, "ToLiteral", b, <<>>, TRUE, <<>>), c1.bufs[b].lit)

\* PjRtBuffer::IsDeleted
IsDeleted(c, b) == c.bufs[b].st # "live"

\* PjRtBuffer::Delete: releases the device memory
Delete(c, b) ==
    Log([c EXCEPT !.bufs[b].st = "deleted", !.bufs[b].lit = NoLit,
                  !.bufs[b].xfer = "none"], "Delete", b, <<>>, TRUE, <<>>)

----------------------------------------------------------------------------
(* exla_client.cc                                                          *)

\* new ExlaBuffer(std::move(buffer), can_be_released_after_run)
NewExlaBuffer(c, b, can_be_released_after_run) ==
    [c EXCEPT !.bufs[b].own = "exla", !.bufs[b].rel = can_be_released_after_run]

\* delete buf: the object and the PjRtBuffer it owns are destroyed
DeleteExlaBuffer(c, b) ==
    Log([c EXCEPT !.bufs[b].st = "freed", !.bufs[b].lit = NoLit,
                  !.bufs[b].xfer = "none"], "Free", b, <<>>, TRUE, <<>>)

\* nif::make<ExlaBuffer*>(env, buf): a resource term, tracked by the caller
MakeResource(c, b) ==
    Log([c EXCEPT !.bufs[b].handles = @ + 1], "MakeResource", b, <<>>, TRUE, <<>>)

\* (mutant) the negative max_size is not taken as "everything"
CopyLiteralToBinary_NoNegative(literal, size) ==
    LET actual_size == Len(literal.data)
        sz == IF size > actual_size THEN actual_size ELSE size
    IN  SubSeq(literal.data, 1, sz)

CopyLiteralToBinary(literal, size) ==
    LET actual_size == Len(literal.data)
        sz == IF size < 0 \/ size > actual_size THEN actual_size ELSE size
    IN  SubSeq(literal.data, 1, sz)

\* (mutant) the statuses of the wait and of the fetch are not looked at
ToBinary_Unchecked(c, b, size) ==
    LET r1 == PjRtBlockHostUntilReady(c, b)
        r2 == ToLiteral(r1.c, b)
    IN  Ok(r2.c, CopyLiteralToBinary(c.bufs[b].lit, size))

\* (mutant) the literal is copied as fetched, in the on-device layout
ToBinary_NoRelayout(c, b, size) ==
    OrReturn(PjRtBlockHostUntilReady(c, b), LAMBDA r1 :
    OrReturn(ToLiteral(r1.c, b), LAMBDA r2 :
    Ok(r2.c, CopyLiteralToBinary(r2.val, size))))

\* (mutant) the value is fetched before the buffer is waited for
ToBinary_FetchFirst(c, b, size) ==
    OrReturn(ToLiteral(c, b), LAMBDA r2 :
    OrReturn(PjRtBlockHostUntilReady(r2.c, b), LAMBDA r1 :
    Ok(r1.c, CopyLiteralToBinary(Relayout(r2.val, RowMajor), size))))

ToBinary(c, b, size) ==
    OrReturn(PjRtBlockHostUntilReady(c, b), LAMBDA r1 :
    OrReturn(ToLiteral(r1.c, b), LAMBDA r2 :
    LET literal == r2.val
        on_device_shape == r2.c.bufs[b].lit.shape
        host_shape == MakeShape(on_device_shape.ty, on_device_shape.dims)
    IN  IF LayoutsInShapesEqual(host_shape, literal.shape)
        THEN Ok(r2.c, CopyLiteralToBinary(literal, size))
        ELSE Ok(r2.c, CopyLiteralToBinary(Relayout(literal, host_shape.m2m), size))))

BlockHostUntilReady(c, b) == PjRtBlockHostUntilReady(c, b)

\* (mutant) the buffer is deleted without asking whether it already was
Deallocate_NoCheck(c, b) == Ok(Delete(c, b), b)

Deallocate(c, b) ==
    IF IsDeleted(c, b)
    THEN Err(c, "FailedPrecondition", "Attempt to deallocate already deallocated buffer.")
    ELSE Ok(Delete(c, b), b)

BufferFromBinary(c, data, shape, device_id, can_be_released_after_run) ==
    OrReturn(LookupDevice(c, device_id), LAMBDA r1 :
    OrReturn(BufferFromHostBuffer(r1.c, data, shape, r1.val), LAMBDA r2 :
    Ok(NewExlaBuffer(r2.c, r2.val, can_be_released_after_run), r2.val)))

\* the value the compiled program produces as its k-th output, on the host
ProgramOutput(k) ==
    [shape |-> MakeShape("u8", <<1, 2>>), data |-> <<k % 2, 1>>]

\* the result vector of an execution: nOut new buffers, each produced
\* asynchronously by the execution
RECURSIVE NewResults(_, _, _, _)
NewResults(c, k, nOut, acc) ==
    IF k > nOut THEN Ok(c, acc)
    ELSE IF FreeIds(c.bufs) = {}
    THEN Err([c EXCEPT !.over = TRUE], "Overflow", "")
    ELSE LET id == NewId(c.bufs)
             nb == [st |-> "live", own |-> "result", rel |-> FALSE, handles |-> 0, held |-> FALSE,
                    xfer |-> "pending",
                    lit |-> Relayout(ProgramOutput(k), devLayout)]
         IN  NewResults([c EXCEPT !.bufs[id] = nb], k + 1, nOut, Append(acc, id))

\* PjRtExecutable::Execute / ExecutePortable: an error when an argument was
\* deleted or when the runtime fails; otherwise the result buffers.  Execute
\* is handed one argument list, so it succeeds for one replica only and
\* result.at(0) is its single result set.
PjRtExecute(c, name, pjrt_buffers, device, nOut) ==
    IF \E i \in 1..Len(pjrt_buffers) : c.bufs[pjrt_buffers[i]].st # "live"
    THEN Err(Log(c, name, device, pjrt_buffers, FALSE, <<>>), name, "deleted buffer argument")
    ELSE LET c1 == Decide(c)
         IN  IF Faulty(c1)
             THEN Err(Log(c1, name, device, pjrt_buffers, FALSE, <<>>), name, "execution failed")
             ELSE OrReturn(NewResults([c1 EXCEPT !.used = TRUE], 1, nOut, <<>>), LAMBDA r :
                  Ok(Log(r.c, name, device, pjrt_buffers, TRUE, r.val), r.val))

\* the destructor of a vector of unique_ptr<PjRtBuffer>: every buffer still
\* owned by the vector is released
DestroyResultVector(c, result) ==
    [c EXCEPT !.bufs = [i \in BufIds |->
        IF (\E k \in 1..Len(result) : result[k] = i) /\ c.bufs[i].own = "result"
        THEN [c.bufs[i] EXCEPT !.st = "freed", !.lit = NoLit, !.xfer = "none"]
        ELSE c.bufs[i]]]

(* Call arguments: a term is a tuple {binary, shape} (bin and shp tell      *)
(* whether its elements decode), a buffer resource, or anything else       *)
TupleTerm(bin, shp) == [t |-> "tuple", bin |-> bin, shp |-> shp, buf |-> NoBuf]
RefTerm(b) == [t |-> "ref", bin |-> FALSE, shp |-> FALSE, buf |-> b]
OtherTerm == [t |-> "other", bin |-> FALSE, shp |-> FALSE, buf |-> NoBuf]

RECURSIVE UnpackArgumentsLoop(_, _, _, _, _)
UnpackArgumentsLoop(c, items, i, device_id, arg_buffers) ==
    IF i > Len(items) THEN Ok(c, arg_buffers)
    ELSE LET head == items[i]
         IN  IF head.t = "tuple"
             THEN IF ~head.bin
                  THEN Err(c, "InvalidArgument", "Expected argument to be binary.")
                  ELSE IF ~head.shp
                  THEN Err(c, "InvalidArgument", "Expected argument to be shape reference.")
                  ELSE OrReturn(BufferFromBinary(c, host.data, host.shape, device_id, TRUE),
                                LAMBDA r :
                       UnpackArgumentsLoop(r.c, items, i + 1, device_id,
                                           Append(arg_buffers, r.val)))
             ELSE IF head.t = "ref"
             THEN UnpackArgumentsLoop(c, items, i + 1, device_id, Append(arg_buffers, head.buf))
             ELSE Err(c, "InvalidArgument", "Expected argument to be buffer reference.")

UnpackRunArguments(c, arguments, device_id) ==
    IF ~arguments.list
    THEN Err(c, "InvalidArgument", "Argument is not a list.")
    ELSE UnpackArgumentsLoop(c, arguments.items, 1, device_id, <<>>)

BinTerm(bytes) == [kind |-> "bin", buf |-> NoBuf, bytes |-> bytes]
HandleTerm(b) == [kind |-> "ref", buf |-> b, bytes |-> <<>>]

\* the terms a handler returns reach the caller, who from then on holds the
\* resource terms among them (a term made and not returned is only the
\* tracker's: the terms of the inputs in Run are dropped with its vector)
ReturnTerms(c, terms) ==
    [c EXCEPT !.bufs = [i \in BufIds |->
        IF \E k \in 1..Len(terms) : terms[k].kind = "ref" /\ terms[k].buf = i
        THEN [c.bufs[i] EXCEPT !.held = TRUE]
        ELSE c.bufs[i]]]

\* (mutant) an output whose readback fails is left out and the loop goes on
RECURSIVE UnpackResultLoop_SkipFailed(_, _, _, _, _)
UnpackResultLoop_SkipFailed(c, result, i, keep_on_device, terms) ==
    IF i > Len(result) THEN Ok(c, terms)
    ELSE LET buf == result[i]
             c1  == NewExlaBuffer(c, buf, FALSE)
         IN  IF keep_on_device
             THEN UnpackResultLoop_SkipFailed(MakeResource(c1, buf), result, i + 1,
                                              keep_on_device, Append(terms, HandleTerm(buf)))
             ELSE LET r == ToBinary(c1, buf, -1)
                  IN  IF ~r.ok
                      THEN UnpackResultLoop_SkipFailed(r.c, result, i + 1, keep_on_device, terms)
                      ELSE UnpackResultLoop_SkipFailed(DeleteExlaBuffer(r.c, buf), result, i + 1,
                                                       keep_on_device, Append(terms, BinTerm(r.val)))

\* (mutant) the buffer read back is not deleted
RECURSIVE UnpackResultLoop_NoDelete(_, _, _, _, _)
UnpackResultLoop_NoDelete(c, result, i, keep_on_device, terms) ==
    IF i > Len(result) THEN Ok(c, terms)
    ELSE LET buf == result[i]
             c1  == NewExlaBuffer(c, buf, FALSE)
         IN  IF keep_on_device
             THEN UnpackResultLoop_NoDelete(MakeResource(c1, buf), result, i + 1,
                                            keep_on_device, Append(terms, HandleTerm(buf)))
             ELSE OrReturn(ToBinary(c1, buf, -1), LAMBDA r :
                  UnpackResultLoop_NoDelete(r.c, result, i + 1,
                                            keep_on_device, Append(terms, BinTerm(r.val))))

\* (mutant) keep_on_device is not looked at: every output is read back
RECURSIVE UnpackResultLoop_AlwaysRead(_, _, _, _, _)
UnpackResultLoop_AlwaysRead(c, result, i, keep_on_device, terms) ==
    IF i > Len(result) THEN Ok(c, terms)
    ELSE LET buf == result[i]
             c1  == NewExlaBuffer(c, buf, FALSE)
         IN  OrReturn(ToBinary(c1, buf, -1), LAMBDA r :
             UnpackResultLoop_AlwaysRead(DeleteExlaBuffer(r.c, buf), result, i + 1,
                                         keep_on_device, Append(terms, BinTerm(r.val))))

\* (mutant) each term is put in front of the terms made before it
RECURSIVE UnpackResultLoop_Reversed(_, _, _, _, _)
UnpackResultLoop_Reversed(c, result, i, keep_on_device, terms) ==
    IF i > Len(result) THEN Ok(c, terms)
    ELSE LET buf == result[i]
             c1  == NewExlaBuffer(c, buf, FALSE)
         IN  IF keep_on_device
             THEN UnpackResultLoop_Reversed(MakeResource(c1, buf), result, i + 1, keep_on_device,
                                            <<HandleTerm(buf)>> \o terms)
             ELSE OrReturn(ToBinary(c1, buf, -1), LAMBDA r :
                  UnpackResultLoop_Reversed(DeleteExlaBuffer(r.c, buf), result, i + 1,
                                            keep_on_device, <<BinTerm(r.val)>> \o terms))

RECURSIVE UnpackResultLoop(_, _, _, _, _)
UnpackResultLoop(c, result, i, keep_on_device, terms) ==
    IF i > Len(result) THEN Ok(c, terms)
    ELSE LET buf == result[i]
             c1  == NewExlaBuffer(c, buf, FALSE)
         IN  IF keep_on_device
             THEN UnpackResultLoop(MakeResource(c1, buf), result, i + 1, keep_on_device,
                                   Append(terms, HandleTerm(buf)))
             ELSE OrReturn(ToBinary(c1, buf, -1), LAMBDA r :
                  UnpackResultLoop(DeleteExlaBuffer(r.c, buf), result, i + 1,
                                   keep_on_device, Append(terms, BinTerm(r.val))))

\* &terms[0] is undefined when terms is empty: a library that checks the
\* index aborts the process, one that does not forms an address that
\* enif_make_list_from_array, given the length 0, never reads
UnpackResult(c, result, keep_on_device) ==
    LET r == UnpackResultLoop(c, result, 1, keep_on_device, <<>>)
    IN  IF r.ok /\ Len(r.val) = 0 /\ r.c.checked
        THEN Err(Log(r.c, "Abort", NoBuf, <<>>, FALSE, <<>>),
                 "Abort", "operator[] on an empty vector")
        ELSE [r EXCEPT !.c = DestroyResultVector(IF r.ok THEN ReturnTerms(r.c, r.val) ELSE r.c,
                                                 result)]

\* the loop of Run over input_buffers: wait for and expose each buffer
\* that may be released after the run
\* (mutant) a buffer that may be released after the run is exposed without
\* waiting for its transfer
RECURSIVE RunInputsLoop_NoWait(_, _, _, _)
RunInputsLoop_NoWait(c, input_buffers, i, pjrt_buffers) ==
    IF i > Len(input_buffers) THEN Ok(c, pjrt_buffers)
    ELSE LET buf == input_buffers[i]
             pb  == Append(pjrt_buffers, buf)
         IN  IF c.bufs[buf].rel
             THEN RunInputsLoop_NoWait(MakeResource(c, buf), input_buffers, i + 1, pb)
             ELSE RunInputsLoop_NoWait(c, input_buffers, i + 1, pb)

\* (mutant) every input is waited for and exposed, whatever its flag
RECURSIVE RunInputsLoop_WaitAll(_, _, _, _)
RunInputsLoop_WaitAll(c, input_buffers, i, pjrt_buffers) ==
    IF i > Len(input_buffers) THEN Ok(c, pjrt_buffers)
    ELSE LET buf == input_buffers[i]
             pb  == Append(pjrt_buffers, buf)
         IN  OrReturn(BlockHostUntilReady(c, buf), LAMBDA r :
             RunInputsLoop_WaitAll(MakeResource(r.c, buf), input_buffers, i + 1, pb))

RECURSIVE RunInputsLoop(_, _, _, _)
RunInputsLoop(c, input_buffers, i, pjrt_buffers) ==
    IF i > Len(input_buffers) THEN Ok(c, pjrt_buffers)
    ELSE LET buf == input_buffers[i]
             pb  == Append(pjrt_buffers, buf)
         IN  IF c.bufs[buf].rel
             THEN OrReturn(BlockHostUntilReady(c, buf), LAMBDA r :
                  RunInputsLoop(MakeResource(r.c, buf), input_buffers, i + 1, pb))
             ELSE RunInputsLoop(c, input_buffers, i + 1, pb)

\* (mutant) the device is not looked up before the portable execution
Run_NoLookup(c, arguments, keep_on_device, device_id, nOut) ==
    OrReturn(UnpackRunArguments(c, arguments, IF device_id >= 0 THEN device_id ELSE 0),
             LAMBDA r1 :
    OrReturn(RunInputsLoop(r1.c, r1.val, 1, <<>>), LAMBDA r2 :
    OrReturn(PjRtExecute(r2.c, IF device_id >= 0 THEN "ExecutePortable" ELSE "Execute",
                         r2.val, device_id, nOut), LAMBDA r4 :
    UnpackResult(r4.c, r4.val, keep_on_device))))

\* (mutant) a negative device_id runs the portable execution on device 0
Run_PortableOnDefault(c, arguments, keep_on_device, device_id, nOut) ==
    OrReturn(UnpackRunArguments(c, arguments, IF device_id >= 0 THEN device_id ELSE 0),
             LAMBDA r1 :
    OrReturn(RunInputsLoop(r1.c, r1.val, 1, <<>>), LAMBDA r2 :
    OrReturn(LookupDevice(r2.c, IF device_id >= 0 THEN device_id ELSE 0), LAMBDA r3 :
    OrReturn(PjRtExecute(r3.c, "ExecutePortable", r2.val, r3.val, nOut), LAMBDA r4 :
    UnpackResult(r4.c, r4.val, keep_on_device)))))

Run(c, arguments, keep_on_device, device_id, nOut) ==
    OrReturn(UnpackRunArguments(c, arguments, IF device_id >= 0 THEN device_id ELSE 0),
             LAMBDA r1 :
    OrReturn(RunInputsLoop(r1.c, r1.val, 1, <<>>), LAMBDA r2 :
    IF device_id >= 0
    THEN OrReturn(LookupDevice(r2.c, device_id), LAMBDA r3 :
         OrReturn(PjRtExecute(r3.c, "ExecutePortable", r2.val, r3.val, nOut), LAMBDA r4 :
         UnpackResult(r4.c, r4.val, keep_on_device)))
    ELSE OrReturn(PjRtExecute(r2.c, "Execute", r2.val, device_id, nOut), LAMBDA r4 :
         UnpackResult(r4.c, r4.val, keep_on_device))))

(* Infeed shapes: an array, or a tuple given by the kinds of its elements  *)
ArrayShape == [tuple |-> FALSE, elems |-> <<>>]
TupleShape(elems) == [tuple |-> TRUE, elems |-> elems]

\* xla::ShapeUtil::IsNestedTuple
IsNestedTuple(shape) ==
    shape.tuple /\ \E i \in 1..Len(shape.elems) : shape.elems[i] = "tuple"

\* xla::ShapeUtil::TupleElementCount
TupleElementCount(shape) == Len(shape.elems)

\* PjRtDevice::TransferToInfeed of a literal borrowing the chunks named
PjRtTransferToInfeed(c, device, chunk_ids) ==
    LET c1 == Decide(c)
    IN  IF Faulty(c1)
        THEN Err(Log(c1, "TransferToInfeed", device, chunk_ids, FALSE, <<>>),
                 "TransferToInfeed", "transfer failed")
        ELSE Ok(Log(c1, "TransferToInfeed", device, chunk_ids, TRUE, <<>>), NoBuf)

\* the while loop of the tuple path: the positions of the chunks, in order
RECURSIVE InfeedChunksLoop(_, _, _, _)
InfeedChunksLoop(c, data, i, buf_ptrs) ==
    IF i > Len(data) THEN Ok(c, buf_ptrs)
    ELSE IF data[i] # "binary"
    THEN Err(c, "InvalidArgument", "infeed operation expects a list of binaries")
    ELSE InfeedChunksLoop(c, data, i + 1, Append(buf_ptrs, i))

\* (mutant) a nested tuple is not rejected
TransferToInfeed_NoNestedCheck(c, data, shape, device_id) ==
    IF shape.tuple
    THEN LET r1 == InfeedChunksLoop(c, data, 1, <<>>)
         IN  IF ~r1.ok THEN r1
             ELSE IF Len(r1.val) # TupleElementCount(shape)
             THEN Err(Log(r1.c, "Abort", NoBuf, r1.val, FALSE, <<>>),
                      "Abort", "CHECK failed in BorrowingLiteral")
             ELSE LET r2 == LookupDevice(r1.c, device_id)
                  IN  IF ~r2.ok THEN r2
                      ELSE PjRtTransferToInfeed(r2.c, r2.val, r1.val)
    ELSE IF Len(data) = 0
    THEN Err(c, "InvalidArgument", "infeed operation expects a list of binaries")
    ELSE IF Head(data) # "binary"
    THEN Err(c, "InvalidArgument", "infeed operation expects a list of binaries")
    ELSE LET r2 == LookupDevice(c, device_id)
         IN  IF ~r2.ok THEN r2
             ELSE PjRtTransferToInfeed(r2.c, r2.val, <<1>>)

\* (mutant) the literal is built whatever the number of chunks
TransferToInfeed_NoCountCheck(c, data, shape, device_id) ==
    IF shape.tuple
    THEN IF IsNestedTuple(shape)
         THEN Err(c, "InvalidArgument", "nested tuples are not supported in infeed operation")
         ELSE OrReturn(InfeedChunksLoop(c, data, 1, <<>>), LAMBDA r1 :
              OrReturn(LookupDevice(r1.c, device_id), LAMBDA r2 :
              PjRtTransferToInfeed(r2.c, r2.val, r1.val)))
    ELSE IF Len(data) = 0
    THEN Err(c, "InvalidArgument", "infeed operation expects a list of binaries")
    ELSE IF Head(data) # "binary"
    THEN Err(c, "InvalidArgument", "infeed operation expects a list of binaries")
    ELSE OrReturn(LookupDevice(c, device_id), LAMBDA r2 :
         PjRtTransferToInfeed(r2.c, r2.val, <<1>>))

\* (mutant) a non-tuple shape reads the whole list, as a tuple shape does
TransferToInfeed_AllChunks(c, data, shape, device_id) ==
    IF shape.tuple /\ IsNestedTuple(shape)
    THEN Err(c, "InvalidArgument", "nested tuples are not supported in infeed operation")
    ELSE OrReturn(InfeedChunksLoop(c, data, 1, <<>>), LAMBDA r1 :
         IF shape.tuple /\ Len(r1.val) # TupleElementCount(shape)
         THEN Err(Log(r1.c, "Abort", NoBuf, r1.val, FALSE, <<>>),
                  "Abort", "CHECK failed in BorrowingLiteral")
         ELSE OrReturn(LookupDevice(r1.c, device_id), LAMBDA r2 :
              PjRtTransferToInfeed(r2.c, r2.val, r1.val)))

TransferToInfeed(c, data, shape, device_id) ==
    IF shape.tuple
    THEN IF IsNestedTuple(shape)
         THEN Err(c, "InvalidArgument", "nested tuples are not supported in infeed operation")
         ELSE LET r1 == InfeedChunksLoop(c, data, 1, <<>>)
              IN  IF ~r1.ok THEN r1
                  \* xla::BorrowingLiteral(buf_ptrs, shape) CHECKs that there
                  \* is one pointer per tuple element: the process aborts
                  ELSE IF Len(r1.val) # TupleElementCount(shape)
                  THEN Err(Log(r1.c, "Abort", NoBuf, r1.val, FALSE, <<>>),
                           "Abort", "CHECK failed in BorrowingLiteral")
                  ELSE LET r2 == LookupDevice(r1.c, device_id)
                       IN  IF ~r2.ok THEN r2
                           ELSE PjRtTransferToInfeed(r2.c, r2.val, r1.val)
    ELSE IF Len(data) = 0
    THEN Err(c, "InvalidArgument", "infeed operation expects a list of binaries")
    ELSE IF Head(data) # "binary"
    THEN Err(c, "InvalidArgument", "infeed operation expects a list of binaries")
    ELSE LET r2 == LookupDevice(c, device_id)
         IN  IF ~r2.ok THEN r2
             ELSE PjRtTransferToInfeed(r2.c, r2.val, <<1>>)

\* (mutant) the outfeed is read from the device named, which is not looked up
TransferFromOutfeed_NoLookup(c, device_id, shape) ==
    LET c1 == Decide(c)
    IN  IF Faulty(c1)
        THEN Err(Log(c1, "TransferFromOutfeed", device_id, <<>>, FALSE, <<>>),
                 "TransferFromOutfeed", "transfer failed")
        ELSE Ok(Log(c1, "TransferFromOutfeed", device_id, <<>>, TRUE, <<>>),
                [p \in 1..SizeBytes(shape) |-> p % 2])

TransferFromOutfeed(c, device_id, shape) ==
    LET r1 == LookupDevice(c, device_id)
    IN  IF ~r1.ok THEN r1
        ELSE LET c1 == Decide(r1.c)
             IN  IF Faulty(c1)
                 THEN Err(Log(c1, "TransferFromOutfeed", r1.val, <<>>, FALSE, <<>>),
                          "TransferFromOutfeed", "transfer failed")
                 ELSE Ok(Log(c1, "TransferFromOutfeed", r1.val, <<>>, TRUE, <<>>),
                         [p \in 1..SizeBytes(shape) |-> p % 2])

----------------------------------------------------------------------------
(* The state machine: one action per operation of the layer               *)

NoArgs == [list |-> TRUE, items |-> <<>>]

\* what the recorded handler was called with, found, did and returned
Outcome(op, r) ==
    [op |-> op, ok |-> r.ok, err |-> r.err, msg |-> r.msg, ev |-> r.c.ev,
     fail |-> r.c.fail, pre |-> bufs, bytes |-> <<>>, out |-> <<>>, tag |-> -1, buf |-> NoBuf,
     size |-> -1, args |-> NoArgs, keep |-> FALSE, dev |-> -1,
     shape |-> ArrayShape, chunks |-> <<>>]

NoOutcome ==
    [op |-> "none", ok |-> TRUE, err |-> "OK", msg |-> "", ev |-> <<>>,
     fail |-> 0, pre |-> <<>>, bytes |-> <<>>, out |-> <<>>, tag |-> -1, buf |-> NoBuf,
     size |-> -1, args |-> NoArgs, keep |-> FALSE, dev |-> -1,
     shape |-> ArrayShape, chunks |-> <<>>]

\* a handler returns: its effect on the buffers stands, and its outcome is
\* either recorded, which ends the behaviour, or not (within the bounds on
\* what the calls before the recorded one leave behind)
Return(c, outcome) ==
    /\ ~c.over
    /\ bufs' = c.bufs
    /\ \/ last' = outcome
       \/ /\ last' = NoOutcome
          /\ Cardinality(BufIds \ FreeIds(c.bufs)) <= MaxPrior
          /\ \A i \in BufIds : c.bufs[i].handles <= MaxHandles
    /\ UNCHANGED <<devLayout, host>>

\* no call was recorded yet: calls are still made
Calling == last = NoOutcome

\* the buffers the caller holds a handle of
Handles(b) == {i \in BufIds : b[i].held}

\* terms that decode to a buffer, and terms that end the decoding
GoodTerms(b) == {TupleTerm(TRUE, TRUE)} \cup {RefTerm(i) : i \in Handles(b)}
BadTerms == {TupleTerm(FALSE, TRUE), TupleTerm(TRUE, FALSE), OtherTerm}

RECURSIVE SeqsUpTo(_, _)
SeqsUpTo(S, n) == IF n = 0 THEN {<<>>} ELSE SeqsUpTo(S, n - 1) \cup SeqsOfLen(S, n)

\* the argument lists of at most MaxArgs terms.  Decoding stops at the first
\* term that does not decode and reads nothing after it, so such a term is
\* taken as the last of its list.
ArgLists(b) ==
    {[list |-> TRUE, items |-> a] : a \in SeqsUpTo(GoodTerms(b), MaxArgs)}
        \cup {[list |-> TRUE, items |-> Append(a, t)] :
                a \in SeqsUpTo(GoodTerms(b), MaxArgs - 1), t \in BadTerms}
        \cup {[list |-> FALSE, items |-> <<>>]}

\* the host binary and shape of the behaviours of Spec
MainHost == [shape |-> [ty |-> "u8", dims |-> <<2, 2>>, m2m |-> RowMajor], data |-> <<1, 2, 3, 4>>]

\* host binaries of the right length for their shape: the code moves bytes
\* and never computes with them, so the bytes are told apart by position
\* (all different), or are all the same
AllHosts ==
    {[shape |-> sh, data |-> [p \in 1..SizeBytes(sh) |-> p * k]] : sh \in Shapes, k \in {0, 1}}

Init ==
    /\ bufs = [i \in BufIds |-> NoBuffer]
    /\ devLayout = ColMajor
    /\ host = MainHost
    /\ last = NoOutcome

\* buffer_from_binary: BufferFromBinary, whose buffer the caller then tracks
DoBufferFromBinary ==
    /\ Calling
    /\ \E device_id \in DeviceIds, rel \in BOOLEAN, fail \in 0..1 :
        LET r  == BufferFromBinary(Ctx(bufs, fail), host.data, host.shape, device_id, rel)
            c2 == IF r.ok
                  THEN ReturnTerms(MakeResource(r.c, r.val), <<HandleTerm(r.val)>>)
                  ELSE r.c
        IN  /\ fail <= r.c.n
            /\ Return(c2, [Outcome("BufferFromBinary", [r EXCEPT !.c = c2])
                             EXCEPT !.buf = r.val, !.dev = device_id, !.keep = rel])

\* buffer_to_binary on a handle the caller holds
DoToBinary ==
    /\ Calling
    /\ \E b \in Handles(bufs), size \in -1..(SizeBytes(host.shape) + 1), fail \in 0..2 :
        LET r == ToBinary(Ctx(bufs, fail), b, size)
        IN  /\ fail <= r.c.n
            /\ Return(r.c, [Outcome("ToBinary", r)
                              EXCEPT !.buf = b, !.size = size,
                                     !.bytes = IF r.ok THEN r.val ELSE <<>>])

\* deallocate_buffer on a handle the caller holds
DoDeallocate ==
    /\ Calling
    /\ \E b \in Handles(bufs) :
        LET r == Deallocate(Ctx(bufs, 0), b)
        IN  Return(r.c, [Outcome("Deallocate", r) EXCEPT !.buf = b])

\* run; the number of results is an input where the execution succeeds,
\* the fault input names one of the calls the runtime decides, and the
\* outcome of the undefined &terms[0] is an input where terms is empty
DoRun ==
    /\ Calling
    /\ \E arguments \in ArgLists(bufs), keep_on_device \in BOOLEAN, device_id \in DeviceIds :
        \E dry0 \in {Run(Ctx(bufs, 0), arguments, keep_on_device, device_id, 0)} :
        \E nOut \in IF dry0.c.used THEN 0..MaxOut ELSE {0} :
        \E dry \in {IF nOut = 0 THEN dry0
                    ELSE Run(Ctx(bufs, 0), arguments, keep_on_device, device_id, nOut)} :
        \E fail \in 0..dry.c.n :
        \E checked \in IF nOut = 0 /\ fail = 0 /\ dry.ok THEN BOOLEAN ELSE {FALSE} :
        \E r \in {IF fail = 0 /\ ~checked THEN dry
                  ELSE Run([Ctx(bufs, fail) EXCEPT !.checked = checked],
                           arguments, keep_on_device, device_id, nOut)} :
            /\ nOut = 0 \/ r.c.used
            /\ Return(r.c, [Outcome("Run", r)
                              EXCEPT !.args = arguments, !.keep = keep_on_device,
                                     !.dev = device_id,
                                     !.out = IF r.ok THEN r.val ELSE <<>>,
                                     !.tag = IF r.ok THEN 0 ELSE -1])

InfeedShapes ==
    {ArrayShape} \cup {TupleShape(e) : e \in SeqsUpTo({"array", "tuple"}, MaxChunks)}

\* transfer_to_infeed
DoTransferToInfeed ==
    /\ Calling
    /\ \E data \in SeqsUpTo({"binary", "other"}, MaxChunks), shape \in InfeedShapes,
       device_id \in DeviceIds, fail \in 0..1 :
        LET r == TransferToInfeed(Ctx(bufs, fail), data, shape, device_id)
        IN  /\ fail <= r.c.n
            /\ Return(r.c, [Outcome("TransferToInfeed", r)
                              EXCEPT !.chunks = data, !.shape = shape, !.dev = device_id])

\* transfer_from_outfeed
DoTransferFromOutfeed ==
    /\ Calling
    /\ \E device_id \in DeviceIds, fail \in 0..1 :
        LET r == TransferFromOutfeed(Ctx(bufs, fail), device_id, host.shape)
        IN  /\ fail <= r.c.n
            /\ Return(r.c, [Outcome("TransferFromOutfeed", r)
                              EXCEPT !.dev = device_id,
                                     !.bytes = IF r.ok THEN r.val ELSE <<>>])

Next ==
    \/ DoBufferFromBinary
    \/ DoToBinary
    \/ DoDeallocate
    \/ DoRun

\* buffers and executions
Spec == Init /\ [][Next]_vars

NextFeed ==
    \/ DoTransferToInfeed
    \/ DoTransferFromOutfeed

\* the infeed and outfeed transfers, which touch no buffer
SpecFeed == Init /\ [][NextFeed]_vars

InitData ==
    /\ bufs = [i \in BufIds |-> NoBuffer]
    /\ devLayout \in Layouts
    /\ host \in AllHosts
    /\ last = NoOutcome

NextData ==
    \/ FreeIds(bufs) = BufIds /\ DoBufferFromBinary
    \/ DoToBinary
    \/ DoDeallocate

\* one buffer made from every host binary and shape, under every device layout
SpecData == InitData /\ [][NextData]_vars

NextDevice ==
    \/ DoBufferFromBinary
    \/ DoTransferToInfeed
    \/ DoTransferFromOutfeed

\* the three operations that are given a device id and transfer to or from it
SpecDevice == Init /\ [][NextDevice]_vars

----------------------------------------------------------------------------
(* What the recorded call did, read from its log                           *)

Events == {last.ev[i] : i \in 1..Len(last.ev)}

\* the input buffers the call materialized from host bytes
Materialized ==
    UNION {{e.res[k] : k \in 1..Len(e.res)} : e \in {x \in Events : x.ev = "BufferFromHostBuffer"}}

\* the executions the call dispatched, and the result buffers they produced
Dispatches == {e \in Events : e.ev \in {"Execute", "ExecutePortable"}}
Results == UNION {{e.res[k] : k \in 1..Len(e.res)} : e \in Dispatches}

\* the call is a Run whose argument list decodes, term by term
ArgsDecode ==
    /\ last.args.list
    /\ \A i \in 1..Len(last.args.items) :
          \/ last.args.items[i].t = "ref"
          \/ last.args.items[i].t = "tuple" /\ last.args.items[i].bin /\ last.args.items[i].shp

\* the bytes of a literal's elements in row-major order, element by element
RowMajorBytes(lit) ==
    LET w == ByteWidth(lit.shape.ty)
        cols == lit.shape.dims[2]
    IN  [p \in 1..Len(lit.data) |->
            LET e == (p - 1) \div w
            IN  lit.data[LinearIndex(lit.shape, e \div cols, e % cols) * w + ((p - 1) % w) + 1]]

----------------------------------------------------------------------------
(* Claims                                                                  *)

\* C1: Deallocate on a live buffer succeeds and releases its device memory
\* (one Delete on the runtime); Deallocate on a buffer already deallocated
\* fails with FailedPrecondition, issues no release and changes no buffer;
\* and no operation brings a deallocated buffer back, so every later
\* Deallocate of it fails.
C1_DeallocateOnce ==
    /\ last.op = "Deallocate" =>
          IF last.pre[last.buf].st = "live"
          THEN /\ last.ok
               /\ bufs[last.buf].st = "deleted"
               /\ last.ev = <<[ev |-> "Delete", id |-> last.buf, bufs |-> <<>>,
                               ok |-> TRUE, res |-> <<>>]>>
          ELSE /\ ~last.ok
               /\ last.err = "FailedPrecondition"
               /\ last.ev = <<>>
               /\ bufs = last.pre
    /\ last.op # "none" =>
          \A b \in BufIds : last.pre[b].st = "deleted" => bufs[b] = last.pre[b]

\* a second Deallocate of the same buffer was made
C1_Witness ==
    /\ last.op = "Deallocate"
    /\ last.pre[last.buf].st = "deleted"
    /\ last.err = "FailedPrecondition"

\* C2: ToBinary on a deallocated buffer returns an error and no bytes, for
\* every max_size; and no call ever fetches the contents of a buffer that
\* was deallocated before it.
C2_NoReadAfterDeallocate ==
    /\ (last.op = "ToBinary" /\ last.pre[last.buf].st # "live") =>
          /\ ~last.ok
          /\ last.bytes = <<>>
    /\ last.op # "none" =>
          \A e \in Events : e.ev = "ToLiteral" /\ e.ok => last.pre[e.id].st # "deleted"

\* ToBinary with a positive max_size on a deallocated buffer
C2_Witness ==
    /\ last.op = "ToBinary"
    /\ last.pre[last.buf].st = "deleted"
    /\ last.size > 0

\* C3: whenever Run returns an error, every input buffer it materialized
\* from host bytes during the call has been handed to the tracker as a
\* handle.
C3_NoOrphanedInput ==
    (last.op = "Run" /\ ~last.ok) =>
        \A b \in Materialized : bufs[b].handles >= 1

\* C4: Run returns its outputs only when every step succeeded for every
\* argument and every output: it succeeds exactly if the argument list
\* decodes and no call it made failed; on success there is one output per
\* result buffer of the one execution dispatched with all the arguments,
\* on failure there is no output.
C4_AllOrNothing ==
    last.op = "Run" =>
        /\ last.ok <=> (ArgsDecode /\ \A e \in Events : e.ok)
        /\ last.ok =>
              /\ Cardinality(Dispatches) = 1
              /\ \A e \in Dispatches :
                    /\ Len(e.bufs) = Len(last.args.items)
                    /\ Len(last.out) = Len(e.res)
              /\ last.tag = 0
        /\ ~last.ok => last.out = <<>> /\ last.tag # 0

\* a Run that failed at the readback of its second output
C4_Witness ==
    /\ last.op = "Run"
    /\ ~last.ok
    /\ last.err = "ToLiteral"
    /\ \E e \in Events : e.ev = "ToLiteral" /\ e.ok

\* C5: when Run succeeds with keep_on_device = false, every output is host
\* bytes, and every result buffer of the execution was read back and has
\* been released.
C5_OutputsOnHost ==
    (last.op = "Run" /\ last.ok /\ ~last.keep) =>
        /\ \A i \in 1..Len(last.out) : last.out[i].kind = "bin" /\ last.out[i].buf = NoBuf
        /\ Len(last.out) = Cardinality(Results)
        /\ \A b \in Results :
              /\ bufs[b].st = "freed"
              /\ \E e \in Events : e.ev = "ToLiteral" /\ e.id = b /\ e.ok

\* a successful Run with keep_on_device = false and two result buffers
C5_Witness ==
    /\ last.op = "Run"
    /\ last.ok
    /\ ~last.keep
    /\ Cardinality(Results) > 1

\* C6: Run with keep_on_device = true makes no readback: it fetches no
\* buffer to the host, and neither reads, waits for nor releases a result
\* buffer; every output it returns is a handle of a live result buffer,
\* in the order of the results.
C6_OutputsOnDevice ==
    (last.op = "Run" /\ last.keep) =>
        /\ \A e \in Events : e.ev # "ToLiteral"
        /\ \A e \in Events : e.id \in Results => e.ev = "MakeResource"
        /\ \A b \in Results : bufs[b].st = "live"
        /\ last.ok =>
              \A e \in Dispatches :
                  /\ Len(last.out) = Len(e.res)
                  /\ \A i \in 1..Len(last.out) :
                        /\ last.out[i].kind = "ref"
                        /\ last.out[i].buf = e.res[i]
                        /\ bufs[e.res[i]].handles = 1

\* a successful Run with keep_on_device = true and two result buffers
C6_Witness ==
    /\ last.op = "Run"
    /\ last.ok
    /\ last.keep
    /\ Len(last.out) > 1

\* the arguments are host bytes or handles of live buffers that are ready
\* or need no wait, or there is none
ArgsSound ==
    /\ ArgsDecode
    /\ \A i \in 1..Len(last.args.items) :
          last.args.items[i].t = "ref" =>
              LET b == last.pre[last.args.items[i].buf]
              IN  b.st = "live" /\ (b.rel => b.xfer = "done")

\* C7: Run with a device_id >= 0 that names no live device returns an error
\* and dispatches nothing, whatever its arguments; with host bytes, sound
\* buffer handles or no argument the error is the failed lookup, and no
\* buffer is made.
C7_UnknownDevice ==
    (last.op = "Run" /\ last.dev >= 0 /\ last.dev \notin LiveDevices) =>
        /\ ~last.ok
        /\ Dispatches = {}
        /\ Materialized = {}
        /\ ArgsSound => last.err = "LookupDevice"

\* a Run on an unknown device whose only argument is a buffer handle
C7_Witness ==
    /\ last.op = "Run"
    /\ last.dev >= 0 /\ last.dev \notin LiveDevices
    /\ Len(last.args.items) = 1
    /\ last.args.items[1].t = "ref"
    /\ last.err = "LookupDevice"

\* C8: TransferToInfeed with a nested-tuple shape fails with
\* invalid-argument, for every chunk list and device id, and makes no call
\* on the runtime.
C8_NestedTupleRejected ==
    (last.op = "TransferToInfeed" /\ IsNestedTuple(last.shape)) =>
        /\ ~last.ok
        /\ last.err = "InvalidArgument"
        /\ last.ev = <<>>

\* a nested-tuple infeed on the live device with one binary per element
C8_Witness ==
    /\ last.op = "TransferToInfeed"
    /\ IsNestedTuple(last.shape)
    /\ last.dev \in LiveDevices
    /\ Len(last.chunks) = TupleElementCount(last.shape)
    /\ \A i \in 1..Len(last.chunks) : last.chunks[i] = "binary"

\* C9: on a live buffer whose row-major serialization has n bytes, a
\* ToBinary(max_size) that the runtime does not fail returns the whole
\* serialization when max_size < 0 or max_size > n, and its first max_size
\* bytes otherwise.
C9_ToBinaryPrefix ==
    (last.op = "ToBinary" /\ last.pre[last.buf].st = "live") =>
        LET full == RowMajorBytes(last.pre[last.buf].lit)
            n    == Len(full)
        IN  /\ n = SizeBytes(host.shape)
            /\ (last.fail = 0 /\ last.pre[last.buf].xfer # "failed") => last.ok
            /\ last.ok =>
                  last.bytes = IF last.size < 0 \/ last.size > n
                               THEN full
                               ELSE SubSeq(full, 1, last.size)

\* a proper prefix of a 2 x 2 value that the device stores column-major
C9_Witness ==
    /\ last.op = "ToBinary"
    /\ last.ok
    /\ last.size > 0 /\ last.size < SizeBytes(host.shape)
    /\ host.shape.dims = <<2, 2>>
    /\ last.pre[last.buf].lit.shape.m2m = ColMajor
    /\ last.bytes # SubSeq(last.pre[last.buf].lit.data, 1, last.size)

\* C10: for a row-major-compatible shape s and host bytes of length
\* size_bytes(s), ToBinary(-1) on the buffer made by BufferFromBinary
\* returns exactly those size_bytes(s) bytes.
C10_RoundTrip ==
    (last.op = "ToBinary" /\ last.ok /\ last.size = -1 /\ RowMajorCompatible(host.shape)) =>
        /\ Len(last.bytes) = SizeBytes(host.shape)
        /\ last.bytes = host.data

\* the round trip of a 2 x 2 value of 2-byte elements through a device
\* that stores it column-major
C10_Witness ==
    /\ last.op = "ToBinary"
    /\ last.ok
    /\ last.size = -1
    /\ host.shape = [ty |-> "u16", dims |-> <<2, 2>>, m2m |-> RowMajor]
    /\ devLayout = ColMajor
    /\ last.bytes = host.data
    /\ last.pre[last.buf].lit.data # host.data

\* the calls that move data to or from a device
Transfers == {"BufferFromHostBuffer", "TransferToInfeed", "TransferFromOutfeed"}

\* C11: BufferFromBinary, TransferToInfeed and TransferFromOutfeed fail when
\* device_id names no live device, and then issue no transfer and make no
\* buffer; every transfer a call issues is on a device that a successful
\* lookup of the same call returned before it.
C11_DeviceResolved ==
    last.op \in {"BufferFromBinary", "TransferToInfeed", "TransferFromOutfeed"} =>
        /\ last.dev \notin LiveDevices =>
              /\ ~last.ok
              /\ \A e \in Events : e.ev \notin Transfers
              /\ bufs = last.pre
        /\ \A i \in 1..Len(last.ev) :
              last.ev[i].ev \in Transfers =>
                  \E j \in 1..(i - 1) :
                      /\ last.ev[j].ev = "LookupDevice"
                      /\ last.ev[j].ok
                      /\ last.ev[j].id = last.ev[i].id

\* an outfeed read asked of a device that does not exist
C11_Witness ==
    /\ last.op = "TransferFromOutfeed"
    /\ last.dev \notin LiveDevices
    /\ last.err = "LookupDevice"
    /\ last.fail = 0

\* C12: a Run that succeeds returns the tag 0 and a list with one output per
\* result buffer of its execution, in the order in which the execution
\* produced them: the i-th output is the handle of the i-th result buffer,
\* or the bytes of the i-th value the program produces.
C12_OutputsInOrder ==
    (last.op = "Run" /\ last.ok) =>
        /\ last.tag = 0
        /\ Dispatches # {}
        /\ \A e \in Dispatches :
              /\ Len(last.out) = Len(e.res)
              /\ \A i \in 1..Len(e.res) :
                    last.out[i] = IF last.keep
                                  THEN HandleTerm(e.res[i])
                                  ELSE BinTerm(ProgramOutput(i).data)

\* a successful Run whose two outputs, read back, differ
C12_Witness ==
    /\ last.op = "Run"
    /\ last.ok
    /\ ~last.keep
    /\ Len(last.out) > 1
    /\ last.out[1] # last.out[2]

\* the positions in the log of the executions dispatched
DispatchAt == {d \in 1..Len(last.ev) : last.ev[d].ev \in {"Execute", "ExecutePortable"}}

\* the wait for buffer b succeeded before position i of the log
WaitedBefore(b, i) ==
    \E j \in 1..(i - 1) :
        last.ev[j].ev = "BlockHostUntilReady" /\ last.ev[j].id = b /\ last.ev[j].ok

\* C13: in every Run, an input buffer materialized from host bytes is made
\* a handle only after the wait for its transfer succeeded; every wait for
\* and every exposure of such a buffer precedes the dispatch, which finds
\* each of its materialized inputs waited for and exposed; and a
\* materialized buffer whose wait failed is an input of no execution.
C13_WaitThenExposeThenDispatch ==
    last.op = "Run" =>
        /\ \A i \in 1..Len(last.ev) :
              (last.ev[i].ev = "MakeResource" /\ last.ev[i].id \in Materialized) =>
                  WaitedBefore(last.ev[i].id, i)
        /\ \A d \in DispatchAt :
              /\ \A i \in 1..Len(last.ev) :
                    (last.ev[i].id \in Materialized
                        /\ last.ev[i].ev \in {"BlockHostUntilReady", "MakeResource"}) => i < d
              /\ \A b \in Materialized :
                    /\ WaitedBefore(b, d)
                    /\ \E j \in 1..(d - 1) :
                          last.ev[j].ev = "MakeResource" /\ last.ev[j].id = b
        /\ \A e \in Events :
              (e.ev = "BlockHostUntilReady" /\ ~e.ok /\ e.id \in Materialized) =>
                  \A x \in Dispatches : \A k \in 1..Len(x.bufs) : x.bufs[k] # e.id

\* a Run with two host-bytes arguments: the first was waited for and
\* exposed, the wait for the second failed
C13_Witness ==
    /\ last.op = "Run"
    /\ Cardinality(Materialized) = 2
    /\ last.err = "BlockHostUntilReady"
    /\ \E e \in Events : e.ev = "MakeResource" /\ e.id \in Materialized

\* C14: no call fetches a buffer to the host before the wait for the
\* operation that produces it has succeeded in that call; in ToBinary the
\* wait is the first call made, and when it fails nothing is fetched and
\* no bytes are returned.
C14_WaitBeforeFetch ==
    /\ last.op # "none" =>
          \A i \in 1..Len(last.ev) :
              last.ev[i].ev = "ToLiteral" => WaitedBefore(last.ev[i].id, i)
    /\ last.op = "ToBinary" =>
          /\ last.ev # <<>>
          /\ last.ev[1].ev = "BlockHostUntilReady" /\ last.ev[1].id = last.buf
          /\ ~last.ev[1].ok =>
                /\ Len(last.ev) = 1
                /\ ~last.ok
                /\ last.bytes = <<>>

\* ToBinary on a live buffer whose transfer, still in flight, then fails
C14_Witness ==
    /\ last.op = "ToBinary"
    /\ last.pre[last.buf].st = "live"
    /\ last.pre[last.buf].xfer = "pending"
    /\ last.err = "BlockHostUntilReady"

\* C15: device_id alone decides how Run dispatches.  With device_id >= 0
\* host bytes are transferred to that device only, an execution is a
\* portable one on that device, dispatched right after the successful
\* lookup of it; with device_id < 0 an execution is a default one and no
\* device is looked up for it.  Either way at most one execution is
\* dispatched, exactly one when Run succeeds, and the outputs are packed
\* from its one result set.
C15_DispatchMode ==
    last.op = "Run" =>
        /\ Cardinality(DispatchAt) <= 1
        /\ last.ok => Cardinality(DispatchAt) = 1
        /\ last.ok => \A e \in Dispatches : Len(last.out) = Len(e.res)
        /\ last.dev >= 0 =>
              /\ \A e \in Events : e.ev = "BufferFromHostBuffer" => e.id = last.dev
              /\ \A d \in DispatchAt :
                    /\ last.ev[d].ev = "ExecutePortable"
                    /\ last.ev[d].id = last.dev
                    /\ d > 1
                    /\ last.ev[d - 1].ev = "LookupDevice"
                    /\ last.ev[d - 1].ok
                    /\ last.ev[d - 1].id = last.dev
        /\ last.dev < 0 =>
              \A d \in DispatchAt :
                  /\ last.ev[d].ev = "Execute"
                  /\ d > 1 => last.ev[d - 1].ev # "LookupDevice"

\* a successful default execution of a host-bytes argument that returned
\* two outputs
C15_Witness ==
    /\ last.op = "Run"
    /\ last.ok
    /\ last.dev < 0
    /\ Materialized # {}
    /\ Len(last.out) = 2

\* the infeed transfers the recorded call issued
InfeedTransfers == {e \in Events : e.ev = "TransferToInfeed"}

\* C16: for a tuple shape of n elements that is not nested, every infeed
\* transfer TransferToInfeed issues is given exactly n chunks, the i-th of
\* them the i-th chunk of the caller's list, each a binary; with n
\* binaries, a live device and a runtime that does not fail, the transfer
\* is issued and succeeds; a list of another length issues none.
C16_OneChunkPerElement ==
    (last.op = "TransferToInfeed" /\ last.shape.tuple /\ ~IsNestedTuple(last.shape)) =>
        LET n == TupleElementCount(last.shape)
        IN  /\ \A e \in InfeedTransfers :
                  /\ Len(e.bufs) = n
                  /\ Len(last.chunks) = n
                  /\ \A i \in 1..n : e.bufs[i] = i /\ last.chunks[i] = "binary"
            /\ Len(last.chunks) # n => InfeedTransfers = {}
            /\ (/\ Len(last.chunks) = n
                /\ \A i \in 1..n : last.chunks[i] = "binary"
                /\ last.dev \in LiveDevices
                /\ last.fail = 0) => last.ok /\ Cardinality(InfeedTransfers) = 1

\* a tuple of two elements fed with one binary: no transfer is issued
C16_Witness ==
    /\ last.op = "TransferToInfeed"
    /\ last.shape.tuple /\ ~IsNestedTuple(last.shape)
    /\ TupleElementCount(last.shape) = 2
    /\ last.chunks = <<"binary">>
    /\ last.dev \in LiveDevices

\* C17: for a shape that is not a tuple, TransferToInfeed fails with
\* invalid-argument, before any lookup or transfer, when the list is empty
\* or its first element is not a binary; otherwise every transfer it
\* issues is of the first chunk alone, whatever follows it in the list,
\* and with a live device and a runtime that does not fail it issues
\* exactly one and succeeds.
C17_FirstChunkOnly ==
    (last.op = "TransferToInfeed" /\ ~last.shape.tuple) =>
        IF last.chunks = <<>> \/ Head(last.chunks) # "binary"
        THEN /\ ~last.ok
             /\ last.err = "InvalidArgument"
             /\ last.ev = <<>>
        ELSE /\ \A e \in InfeedTransfers : e.bufs = <<1>>
             /\ (last.dev \in LiveDevices /\ last.fail = 0) =>
                    last.ok /\ Cardinality(InfeedTransfers) = 1

\* an array fed with a binary followed by something that is not a binary
C17_Witness ==
    /\ last.op = "TransferToInfeed"
    /\ ~last.shape.tuple
    /\ last.chunks = <<"binary", "other">>
    /\ last.ok

\* the calls made on a buffer
BufferCalls == {"BlockHostUntilReady", "ToLiteral", "MakeResource", "Delete", "Free"}

\* the positions in the log of the transfers that made an input buffer
MadeAt == {j \in 1..Len(last.ev) : last.ev[j].ev = "BufferFromHostBuffer" /\ last.ev[j].ok}

\* the buffer the i-th argument decodes to: the buffer of a handle, or the
\* buffer made for the host bytes, the k-th made for the k-th such argument
ArgBuffer(i) ==
    IF last.args.items[i].t = "ref"
    THEN last.args.items[i].buf
    ELSE LET k == Cardinality({j \in 1..i : last.args.items[j].t = "tuple"})
             at == CHOOSE j \in MadeAt : Cardinality({x \in MadeAt : x <= j}) = k
         IN  last.ev[at].res[1]

\* C18: whether Run succeeds or fails, a buffer passed as a handle whose
\* release_after_run is false is left as it was (neither released nor
\* exposed again, live exactly if it was live) and Run makes no call on it
\* as a buffer: no wait, no fetch, no new handle, no release; and the
\* buffers given to the execution are the decoded arguments, in the order
\* of the argument list.
C18_HandlesPassedThrough ==
    last.op = "Run" =>
        /\ \A i \in 1..Len(last.args.items) :
              (last.args.items[i].t = "ref" /\ ~last.pre[last.args.items[i].buf].rel) =>
                  LET b == last.args.items[i].buf
                  IN  /\ bufs[b] = last.pre[b]
                      /\ \A e \in Events : e.ev \in BufferCalls => e.id # b
        /\ \A e \in Dispatches :
              /\ Len(e.bufs) = Len(last.args.items)
              /\ \A i \in 1..Len(e.bufs) : e.bufs[i] = ArgBuffer(i)

\* a Run given host bytes and then a handle, which it dispatched
C18_Witness ==
    /\ last.op = "Run"
    /\ Len(last.args.items) = 2
    /\ last.args.items[1].t = "tuple"
    /\ last.args.items[2].t = "ref"
    /\ ~last.pre[last.args.items[2].buf].rel
    /\ last.pre[last.args.items[2].buf].st = "live"
    /\ Dispatches # {}

\* C19: whatever BufferFromBinary and Run calls were made, no buffer has
\* been made an owning handle of the tracker more than once.
C19_OneOwningHandle ==
    \A b \in BufIds : bufs[b].handles <= 1

\* C20: when Run returns, with outputs or with an error, every result
\* buffer its execution produced is held by the caller as a handle or has
\* been released.
C20_NoLeakedOutput ==
    (last.op = "Run" /\ last.err # "Abort") =>
        \A b \in Results : bufs[b].held \/ bufs[b].st = "freed"

====
